---- MODULE Spec2Model ----
(***************************************************************************)
(* Model of the options analytics of src/options_gex.py: the Black-Scholes *)
(* Greeks evaluator (black_scholes_greeks), the per-row gamma exposure     *)
(* (calculate_gex), the GEX analysis branch of the page script and the     *)
(* Greeks calculator branch.                                               *)
(*                                                                         *)
(* Numbers.  A Python/numpy number is a record [t, v]:                     *)
(*   t = "py"   a finite Python int or float, v its value in 1/SCALE units *)
(*   t = "np"   a finite numpy float64, v its value in 1/SCALE units       *)
(*   t = "nan"  float NaN (v = 0)                                          *)
(*   t = "inf"  float infinity, v = 1 or -1 its sign                       *)
(*   t = "none" Python None (v = 0)                                        *)
(* Finite values are fixed-point with rounding to nearest, which keeps the *)
(* sign symmetry of IEEE arithmetic.  The distinction between "py" and     *)
(* "np" matters in one place: Python's own division raises                 *)
(* ZeroDivisionError, numpy's returns inf or nan.                          *)
(***************************************************************************)
EXTENDS Integers, Sequences, FiniteSets, TLC

\* resolution of the fixed-point representation of finite floats
SCALE == 10 ^ 3

Py(x) == [t |-> "py", v |-> x]
Np(x) == [t |-> "np", v |-> x]
NaN == [t |-> "nan", v |-> 0]
Inf(s) == [t |-> "inf", v |-> s]
None == [t |-> "none", v |-> 0]

IsFin(a) == a.t \in {"py", "np"}
IsNaN(a) == a.t = "nan"
IsInf(a) == a.t = "inf"

\* value equality of two numbers, as Python's == (500 == 500.0; NaN equals nothing)
ValEq(a, b) ==
    \/ IsFin(a) /\ IsFin(b) /\ a.v = b.v
    \/ IsInf(a) /\ IsInf(b) /\ a.v = b.v

AbsI(x) == IF x < 0 THEN -x ELSE x
SgnI(x) == IF x < 0 THEN -1 ELSE IF x > 0 THEN 1 ELSE 0
MinI(x, y) == IF x < y THEN x ELSE y
MaxI(x, y) == IF x < y THEN y ELSE x

\* sign of a non-NaN number
Sgn(a) == IF IsInf(a) THEN a.v ELSE SgnI(a.v)

\* the type of the result of an arithmetic operator: a Python number only
\* when both operands are Python numbers
Tag(a, b) == IF a.t = "py" /\ b.t = "py" THEN "py" ELSE "np"

\* |a * b| / SCALE rounded to nearest, for a, b >= 0, splitting the larger
\* factor so that no intermediate product leaves the integer range
MulRaw(a, b) ==
    LET big == MaxI(a, b)
        small == MinI(a, b)
    IN  small * (big \div SCALE) + ((small * (big % SCALE) + SCALE \div 2) \div SCALE)

\* a * SCALE / b rounded to nearest, for a >= 0, b > 0
DivRaw(a, b) ==
    (a \div b) * SCALE + (((a % b) * SCALE + b \div 2) \div b)

\* truthiness of a value in `x or default`: None and zero are falsy, NaN is truthy
Truthy(a) == ~(a.t = "none" \/ (IsFin(a) /\ a.v = 0))

\* Python `a or b`
Or(a, b) == IF Truthy(a) THEN a ELSE b

\* unary minus
Neg(a) ==
    IF IsNaN(a) THEN NaN ELSE [t |-> a.t, v |-> -a.v]

\* a + b
Add(a, b) ==
    IF IsNaN(a) \/ IsNaN(b) THEN NaN
    ELSE IF IsInf(a) /\ IsInf(b) THEN (IF a.v = b.v THEN a ELSE NaN)
    ELSE IF IsInf(a) THEN a
    ELSE IF IsInf(b) THEN b
    ELSE [t |-> Tag(a, b), v |-> a.v + b.v]

\* a - b
Sub(a, b) == Add(a, Neg(b))

\* a * b
Mul(a, b) ==
    IF IsNaN(a) \/ IsNaN(b) THEN NaN
    ELSE IF IsInf(a) \/ IsInf(b)
         THEN (IF Sgn(a) * Sgn(b) = 0 THEN NaN ELSE Inf(Sgn(a) * Sgn(b)))
    ELSE [t |-> Tag(a, b), v |-> SgnI(a.v) * SgnI(b.v) * MulRaw(AbsI(a.v), AbsI(b.v))]

\* a ** 2
Pow2(a) == Mul(a, a)

\* Python division of two Python numbers by zero raises ZeroDivisionError
PyZeroDiv(a, b) == a.t = "py" /\ b.t = "py" /\ b.v = 0

\* a / b where the division does not raise (numpy semantics on a zero divisor)
Div(a, b) ==
    IF IsNaN(a) \/ IsNaN(b) THEN NaN
    ELSE IF IsInf(a) /\ IsInf(b) THEN NaN
    ELSE IF IsInf(a) THEN Inf(a.v * (IF b.v < 0 THEN -1 ELSE 1))
    ELSE IF IsInf(b) THEN Np(0)
    ELSE IF b.v = 0 THEN (IF a.v = 0 THEN NaN ELSE Inf(SgnI(a.v)))
    ELSE [t |-> Tag(a, b), v |-> SgnI(a.v) * SgnI(b.v) * DivRaw(AbsI(a.v), AbsI(b.v))]

\* a <= b and a > b (comparisons with NaN are False)
Le(a, b) ==
    /\ ~IsNaN(a) /\ ~IsNaN(b)
    /\ IF IsInf(a) THEN (a.v = -1 \/ a = b)
       ELSE IF IsInf(b) THEN b.v = 1
       ELSE a.v <= b.v
Gt(a, b) == ~IsNaN(a) /\ ~IsNaN(b) /\ ~Le(a, b)

\* Python max(a, b) of two finite numbers
Max(a, b) == IF Gt(b, a) THEN b ELSE a

\* abs(a)
Abs(a) == IF IsNaN(a) THEN NaN ELSE [t |-> a.t, v |-> AbsI(a.v)]

RECURSIVE LnRaw(_)
\* natural logarithm of x / SCALE in 1/SCALE units, x > 0: reduction to
\* [1, 2) by powers of two (ln 2 = 0.693), then 2 * atanh((x - 1) / (x + 1))
LnRaw(x) ==
    IF x >= 2 * SCALE THEN 693 + LnRaw((x + 1) \div 2)
    ELSE IF x < SCALE THEN LnRaw(2 * x) - 693
    ELSE LET y == DivRaw(x - SCALE, x + SCALE)
             y2 == MulRaw(y, y)
             y3 == MulRaw(y2, y)
             y5 == MulRaw(y3, y2)
         IN  (2 * (105 * y + 35 * y3 + 21 * y5) + 52) \div 105

\* np.log
Log(a) ==
    IF IsNaN(a) \/ a.t = "none" THEN NaN
    ELSE IF IsInf(a) THEN (IF a.v = 1 THEN a ELSE NaN)
    ELSE IF a.v < 0 THEN NaN
    ELSE IF a.v = 0 THEN Inf(-1)
    ELSE Np(LnRaw(a.v))

RECURSIVE SqrtIter(_, _)
\* Newton iteration for the integer square root of n, from a bound g >= sqrt(n)
SqrtIter(n, g) ==
    LET h == (g + n \div g) \div 2
    IN  IF h >= g THEN g ELSE SqrtIter(n, h)

\* square root of x / SCALE in 1/SCALE units, rounded to nearest, x >= 0
SqrtRaw(x) ==
    IF x = 0 THEN 0
    ELSE LET n == x * SCALE
             s == SqrtIter(n, MaxI(x, SCALE))
         IN  IF n - s * s > s THEN s + 1 ELSE s

\* np.sqrt
Sqrt(a) ==
    IF IsNaN(a) THEN NaN
    ELSE IF IsInf(a) THEN (IF a.v = 1 THEN a ELSE NaN)
    ELSE IF a.v < 0 THEN NaN
    ELSE Np(SqrtRaw(a.v))

RECURSIVE ExpRaw(_)
\* e ** (x / SCALE) in 1/SCALE units: halving of the argument down to
\* |x| <= 1/2, then the Taylor polynomial of degree 4
ExpRaw(x) ==
    IF AbsI(x) > SCALE \div 2
    THEN LET h == ExpRaw(SgnI(x) * (AbsI(x) \div 2))
             r == MulRaw(h, h)
         IN  IF AbsI(x) % 2 = 1 /\ x < 0 THEN MulRaw(r, 999)
             ELSE IF AbsI(x) % 2 = 1 THEN MulRaw(r, 1001)
             ELSE r
    ELSE LET a == AbsI(x)
             x2 == MulRaw(a, a)
             x3 == MulRaw(x2, a)
             x4 == MulRaw(x3, a)
             even == 24 * SCALE + 12 * x2 + x4
             odd == 24 * a + 4 * x3
         IN  IF x >= 0 THEN (even + odd + 12) \div 24 ELSE (even - odd + 12) \div 24

\* np.exp for the finite arguments the evaluator passes
Exp(a) ==
    IF IsNaN(a) THEN NaN
    ELSE IF IsInf(a) THEN (IF a.v = 1 THEN a ELSE Np(0))
    ELSE Np(ExpRaw(a.v))

\* standard normal density and distribution at 0.0, 0.1, ..., 4.1, in 1/SCALE
PdfTable ==
    << 399, 397, 391, 381, 368, 352, 333, 312, 290, 266, 242, 218, 194, 171,
       150, 130, 111, 94, 79, 66, 54, 44, 35, 28, 22, 18, 14, 10, 8, 6, 4, 3,
       2, 2, 1, 1, 1, 0, 0, 0, 0, 0 >>
CdfTable ==
    << 500, 540, 579, 618, 655, 691, 726, 758, 788, 816, 841, 864, 885, 903,
       919, 933, 945, 955, 964, 971, 977, 982, 986, 989, 992, 994, 995, 997,
       997, 998, 999, 999, 999, 1000, 1000, 1000, 1000, 1000, 1000, 1000,
       1000, 1000 >>

\* linear interpolation in a table of step 0.1 at x >= 0 (1/SCALE units)
Interp(tab, x) ==
    LET step == SCALE \div 10
        i == x \div step
        f == x % step
    IN  IF i + 2 > Len(tab) THEN tab[Len(tab)]
        ELSE LET lo == tab[i + 1]
                 hi == tab[i + 2]
             IN  IF hi >= lo THEN lo + ((hi - lo) * f + step \div 2) \div step
                 ELSE lo - ((lo - hi) * f + step \div 2) \div step

\* scipy.stats.norm.pdf
NormPdf(a) ==
    IF IsNaN(a) THEN NaN
    ELSE IF IsInf(a) THEN Np(0)
    ELSE Np(Interp(PdfTable, AbsI(a.v)))

\* scipy.stats.norm.cdf
NormCdf(a) ==
    IF IsNaN(a) THEN NaN
    ELSE IF IsInf(a) THEN (IF a.v = 1 THEN Np(SCALE) ELSE Np(0))
    ELSE IF a.v >= 0 THEN Np(Interp(CdfTable, a.v))
    ELSE Np(SCALE - Interp(CdfTable, -a.v))


(***************************************************************************)
(* black_scholes_greeks                                                    *)
(***************************************************************************)

\* the result of a call: exc = "none" and the four Greeks, or the exception
\* the call raised
Returned(d, g, th, v) == [exc |-> "none", delta |-> d, gamma |-> g, theta |-> th, vega |-> v]
Raised(e) == [exc |-> e, delta |-> NaN, gamma |-> NaN, theta |-> NaN, vega |-> NaN]

\* the exception the evaluation of S/K raises, "none" when it raises none
DivisionError(S, K) ==
    IF S.t = "none" \/ K.t = "none" THEN "TypeError"
    ELSE IF PyZeroDiv(S, K) THEN "ZeroDivisionError"
    ELSE "none"

\* the evaluator without its floor on T
FloorTNone(T) == T

\* T after `if T <= 0: T = 0.001`
FloorT(T) == IF Le(T, Py(0)) THEN Py(1) ELSE T

\* d1 with sigma in place of sigma**2
D1NoSquare(S, K, T, r, sigma, sqrtT) ==
    Div(Add(Log(Div(S, K)), Mul(Add(r, Mul(Py(SCALE \div 2), sigma)), T)),
        Mul(sigma, sqrtT))

\* d1 and d2 of the Black-Scholes formula, sqrtT being np.sqrt(T)
D1(S, K, T, r, sigma, sqrtT) ==
    Div(Add(Log(Div(S, K)), Mul(Add(r, Mul(Py(SCALE \div 2), Pow2(sigma))), T)),
        Mul(sigma, sqrtT))
D2(d1, sigma, sqrtT) == Sub(d1, Mul(sigma, sqrtT))

\* whether the evaluator takes its `if option_type == 'call'` branch
IsCallBranch(option_type) == option_type = "call"

\* the delta of a call for either option type
DeltaOfCall(d1, option_type) == NormCdf(d1)

\* delta with 1 - norm.cdf(d1) for a put
DeltaPutComplement(d1, option_type) ==
    IF IsCallBranch(option_type) THEN NormCdf(d1) ELSE Sub(Py(SCALE), NormCdf(d1))

Delta(d1, option_type) ==
    IF IsCallBranch(option_type) THEN NormCdf(d1) ELSE Sub(NormCdf(d1), Py(SCALE))

Theta(S, K, T, r, sigma, sqrtT, d1, d2, option_type) ==
    LET decay == Div(Mul(Mul(Neg(S), NormPdf(d1)), sigma), Mul(Py(2 * SCALE), sqrtT))
        disc == Mul(Mul(r, K), Exp(Mul(Neg(r), T)))
    IN  IF IsCallBranch(option_type)
        THEN Div(Sub(decay, Mul(disc, NormCdf(d2))), Py(365 * SCALE))
        ELSE Div(Add(decay, Mul(disc, NormCdf(Neg(d2)))), Py(365 * SCALE))

\* gamma without the density: 1 / (S * sigma * np.sqrt(T))
GammaNoPdf(S, sigma, sqrtT, d1) == Div(Py(SCALE), Mul(Mul(S, sigma), sqrtT))

Gamma(S, sigma, sqrtT, d1) == Div(NormPdf(d1), Mul(Mul(S, sigma), sqrtT))

Vega(S, sqrtT, d1) == Div(Mul(Mul(S, NormPdf(d1)), sqrtT), Py(100 * SCALE))

\* the evaluator with the put's gamma taken at d2
black_scholes_greeks_d2(S, K, T, r, sigma, option_type) ==
    LET T1 == FloorT(T)
        sqrtT == Sqrt(T1)
        d1 == D1(S, K, T1, r, sigma, sqrtT)
        d2 == D2(d1, sigma, sqrtT)
    IN  IF DivisionError(S, K) # "none" THEN Raised(DivisionError(S, K))
        ELSE Returned(Delta(d1, option_type),
                      Gamma(S, sigma, sqrtT, IF IsCallBranch(option_type) THEN d1 ELSE d2),
                      Theta(S, K, T1, r, sigma, sqrtT, d1, d2, option_type),
                      Vega(S, sqrtT, d1))

black_scholes_greeks(S, K, T, r, sigma, option_type) ==
    LET T1 == FloorT(T)
        sqrtT == Sqrt(T1)
        d1 == D1(S, K, T1, r, sigma, sqrtT)
        d2 == D2(d1, sigma, sqrtT)
    IN  IF DivisionError(S, K) # "none" THEN Raised(DivisionError(S, K))
        ELSE Returned(Delta(d1, option_type), Gamma(S, sigma, sqrtT, d1),
                      Theta(S, K, T1, r, sigma, sqrtT, d1, d2, option_type),
                      Vega(S, sqrtT, d1))

(***************************************************************************)
(* calculate_gex                                                           *)
(*                                                                         *)
(* A chain row is a record over the chain's columns.  The columns a row    *)
(* may have: strike, open_interest, implied_volatility (numbers),          *)
(* expiration ([t |-> "date", v |-> day number] for a well-formed date     *)
(* string, [t |-> "str", v |-> 0] for a string that is no date) and        *)
(* option_type (a string).                                                 *)
(***************************************************************************)

Date(d) == [t |-> "date", v |-> d]
BadDate == [t |-> "str", v |-> 0]

\* row.get(key, default)
Get(row, key, default) == IF key \in DOMAIN row THEN row[key] ELSE default

\* (exp_date - datetime.now()).days: whole days, rounded down, from the clock
\* reading t = [day, partial] (partial: past midnight of that day) to midnight
\* of the expiration day
DaysTo(exp_date, t) == exp_date.v - t.day - (IF t.partial THEN 1 ELSE 0)

\* oi with `or 1` in place of `or 0`
RowOIOne(row) == Or(Get(row, "open_interest", Py(0)), Py(SCALE))

\* oi with 1 in place of 0 as the default of an absent field
RowOIDefaultOne(row) == Or(Get(row, "open_interest", Py(SCALE)), Py(0))

\* the `oi` and `iv` of a row
RowOI(row) == Or(Get(row, "open_interest", Py(0)), Py(0))
RowIV(row) == Or(Get(row, "implied_volatility", Py((3 * SCALE) \div 10)), Py((3 * SCALE) \div 10))

\* T without the floor: (exp_date - datetime.now()).days / 365 as it is
RowTNoFloor(row, t) ==
    IF "expiration" \in DOMAIN row
    THEN Div(Py(DaysTo(row["expiration"], t) * SCALE), Py(365 * SCALE))
    ELSE Div(Py(30 * SCALE), Py(365 * SCALE))

\* the `T` of a row whose expiration parses, at clock reading t
RowT(row, t) ==
    IF "expiration" \in DOMAIN row
    THEN Max(Div(Py(DaysTo(row["expiration"], t) * SCALE), Py(365 * SCALE)), Py(1))
    ELSE Div(Py(30 * SCALE), Py(365 * SCALE))

\* the risk-free rate calculate_gex passes to the evaluator
GexRate == Py((5 * SCALE) \div 100)

\* the Greeks calculate_gex asks for
RowGreeks(row, spot_price, t) ==
    black_scholes_greeks(spot_price, row["strike"], RowT(row, t), GexRate, RowIV(row),
                         Get(row, "option_type", "call"))

\* whether a statement of the try block raises before the evaluator is called
RowRaises(row) ==
    \/ "strike" \notin DOMAIN row
    \/ "expiration" \in DOMAIN row /\ row["expiration"].t # "date"

\* the exposure with spot_price in place of spot_price**2
ExposureLinear(gamma, oi, spot_price, contract_size) ==
    Mul(Mul(Mul(Mul(gamma, oi), spot_price), contract_size), Py(SCALE \div 100))

\* gex before the sign: greeks['gamma'] * oi * spot_price**2 * contract_size * 0.01
Exposure(gamma, oi, spot_price, contract_size) ==
    Mul(Mul(Mul(Mul(gamma, oi), Pow2(spot_price)), contract_size), Py(SCALE \div 100))

\* whether calculate_gex negates the exposure
IsPutSign(row) == Get(row, "option_type", "call") = "put"

\* calculate_gex without the statement that negates a put's exposure
SignedNever(row, gex) == gex

\* gex after `if row.get('option_type', 'call') == 'put': gex = -gex`
Signed(row, gex) == IF IsPutSign(row) THEN Neg(gex) ELSE gex

\* calculate_gex with `except: return float('nan')` in place of `return 0`
calculate_gex_nan(row, spot_price, contract_size, t) ==
    IF RowRaises(row) THEN NaN
    ELSE LET greeks == RowGreeks(row, spot_price, t)
         IN  IF greeks.exc # "none" THEN NaN
             ELSE Signed(row, Exposure(greeks.gamma, RowOI(row), spot_price, contract_size))

\* calculate_gex(row, spot_price, contract_size) when datetime.now() reads t
calculate_gex(row, spot_price, contract_size, t) ==
    IF RowRaises(row) THEN Py(0)
    ELSE LET greeks == RowGreeks(row, spot_price, t)
         IN  IF greeks.exc # "none" THEN Py(0)
             ELSE Signed(row, Exposure(greeks.gamma, RowOI(row), spot_price, contract_size))

\* a contract size of one share
ContractSizeOne == Py(SCALE)

\* the default of the parameter contract_size
DefaultContractSize == Py(100 * SCALE)

(***************************************************************************)
(* The reduction of the GEX analysis                                       *)
(***************************************************************************)

RECURSIVE SortInts(_)
\* the elements of a finite set of integers in ascending order
SortInts(S) ==
    IF S = {} THEN <<>>
    ELSE LET m == CHOOSE x \in S : \A y \in S : x <= y
         IN  <<m>> \o SortInts(S \ {m})

\* the sort key of an expiration string: ISO dates in date order, before any
\* string that is no date
ExpKey(e) == IF e.t = "date" THEN e.v ELSE 10 ^ 6

RECURSIVE ExpsOfKeys(_, _)
\* the expirations of E in the order of their keys
ExpsOfKeys(E, keys) ==
    IF keys = <<>> THEN <<>>
    ELSE <<CHOOSE e \in E : ExpKey(e) = Head(keys)>> \o ExpsOfKeys(E, Tail(keys))

\* sorted(chains['expiration'].unique())
SortedExpirations(ch) ==
    LET E == {ch[i]["expiration"] : i \in 1..Len(ch)}
        keys == SortInts({ExpKey(e) : e \in E})
    IN  ExpsOfKeys(E, keys)

\* seq[:n]
Head_n(seq, n) == SubSeq(seq, 1, MinI(n, Len(seq)))

RECURSIVE FilterExp(_, _)
\* chains[chains['expiration'].isin(selected_exps)]
FilterExp(ch, sel) ==
    IF ch = <<>> THEN <<>>
    ELSE (IF Head(ch)["expiration"] \in sel THEN <<Head(ch)>> ELSE <<>>)
         \o FilterExp(Tail(ch), sel)

RECURSIVE WithGex(_, _, _)
\* exp_data with its 'gex' column: apply(lambda row: calculate_gex(row, spot_price), axis=1)
WithGex(rows, spot_price, t) ==
    IF rows = <<>> THEN <<>>
    ELSE <<[row |-> Head(rows),
            gex |-> calculate_gex(Head(rows), spot_price, DefaultContractSize, t)]>>
         \o WithGex(Tail(rows), spot_price, t)

RECURSIVE SumKeepNa(_)
\* Series.sum(skipna=False): a NaN entry makes the sum NaN
SumKeepNa(seq) ==
    IF seq = <<>> THEN Np(0) ELSE Add(Head(seq), SumKeepNa(Tail(seq)))

RECURSIVE SumSkipNa(_)
\* Series.sum(): NaN entries are skipped, the empty sum is 0
SumSkipNa(seq) ==
    IF seq = <<>> THEN Np(0)
    ELSE IF IsNaN(Head(seq)) THEN SumSkipNa(Tail(seq))
    ELSE Add(Head(seq), SumSkipNa(Tail(seq)))

RECURSIVE GexOfStrikeFirst(_, _)
\* the 'gex' of the first row of one strike only, as groupby(...).first() reads it
GexOfStrikeFirst(data, k) ==
    IF data = <<>> THEN <<>>
    ELSE IF IsFin(Head(data).row["strike"]) /\ Head(data).row["strike"].v = k
         THEN <<Head(data).gex>>
         ELSE GexOfStrikeFirst(Tail(data), k)

RECURSIVE GexOfStrike(_, _)
\* the 'gex' values of the rows of one strike, in row order
GexOfStrike(data, k) ==
    IF data = <<>> THEN <<>>
    ELSE (IF IsFin(Head(data).row["strike"]) /\ Head(data).row["strike"].v = k
          THEN <<Head(data).gex>> ELSE <<>>)
         \o GexOfStrike(Tail(data), k)

RECURSIVE StrikeKeysInOrder(_)
\* the group keys of groupby('strike', sort=False): in order of first appearance
StrikeKeysInOrder(data) ==
    IF data = <<>> THEN <<>>
    ELSE LET rest == StrikeKeysInOrder(SubSeq(data, 1, Len(data) - 1))
             k == data[Len(data)].row["strike"]
         IN  IF IsFin(k) /\ k.v \notin {rest[i] : i \in DOMAIN rest}
             THEN Append(rest, k.v) ELSE rest

\* the group keys of groupby('strike'): the distinct strikes, NaN dropped, ascending
StrikeKeys(data) ==
    SortInts({data[i].row["strike"].v : i \in {j \in 1..Len(data) : IsFin(data[j].row["strike"])}})

RECURSIVE SumGroups(_, _)
\* one record [strike, gex] per group key, gex the sum of the group
SumGroups(data, keys) ==
    IF keys = <<>> THEN <<>>
    ELSE <<[strike |-> Np(Head(keys)), gex |-> SumSkipNa(GexOfStrike(data, Head(keys)))]>>
         \o SumGroups(data, Tail(keys))

\* exp_data.groupby('strike')['gex'].sum().reset_index()
GroupByStrike(data) == SumGroups(data, StrikeKeys(data))

RECURSIVE GexColumn(_)
\* the 'gex' column of gex_by_strike
GexColumn(g) == IF g = <<>> THEN <<>> ELSE <<Head(g).gex>> \o GexColumn(Tail(g))

RECURSIVE CumSumShifted(_, _)
\* the running sum of the entries before each entry, the entry left out
CumSumShifted(seq, acc) ==
    IF seq = <<>> THEN <<>>
    ELSE IF IsNaN(Head(seq)) THEN <<NaN>> \o CumSumShifted(Tail(seq), acc)
    ELSE <<acc>> \o CumSumShifted(Tail(seq), Add(acc, Head(seq)))

RECURSIVE CumSum(_, _)
\* Series.cumsum(): running sum from acc; a NaN entry stays NaN and is skipped
CumSum(seq, acc) ==
    IF seq = <<>> THEN <<>>
    ELSE IF IsNaN(Head(seq)) THEN <<NaN>> \o CumSum(Tail(seq), acc)
    ELSE <<Add(acc, Head(seq))>> \o CumSum(Tail(seq), Add(acc, Head(seq)))

RECURSIVE SetColumn(_, _)
\* gex_by_strike with the column 'cumsum' set to the values c
SetColumn(g, c) ==
    IF g = <<>> THEN <<>>
    ELSE <<[strike |-> Head(g).strike, gex |-> Head(g).gex, cumsum |-> Head(c)]>>
         \o SetColumn(Tail(g), Tail(c))

\* gex_by_strike with its 'cumsum' column
WithCumSum(g) == SetColumn(g, CumSum(GexColumn(g), Np(0)))

RECURSIVE AbsColumn(_)
\* gex_by_strike['cumsum'].abs()
AbsColumn(g) == IF g = <<>> THEN <<>> ELSE <<Abs(Head(g).cumsum)>> \o AbsColumn(Tail(g))

\* whether idxmin raises: no entry, or none that is a number
IdxMinRaises(seq) == \A i \in 1..Len(seq) : IsNaN(seq[i])

\* Series.idxmin(): the first position of the smallest entry, NaN skipped
IdxMin(seq) ==
    CHOOSE i \in 1..Len(seq) :
        /\ ~IsNaN(seq[i])
        /\ \A j \in 1..Len(seq) : ~IsNaN(seq[j]) => Le(seq[i], seq[j])
        /\ \A j \in 1..(i - 1) : ~IsNaN(seq[j]) => Gt(seq[j], seq[i])

\* gex_by_strike['cumsum'].idxmin(), the absolute value left out
ZeroGammaIdxSigned(g) ==
    IdxMin([i \in 1..Len(g) |-> g[i].cumsum])

\* (gex_by_strike['cumsum'].abs()).idxmin()
ZeroGammaIdx(g) == IdxMin(AbsColumn(g))

\* the environment label with >= in place of >
RegimeAtOrAbove(spot_price, zero_gamma) ==
    IF Le(zero_gamma, spot_price) THEN "positive" ELSE "negative"

\* the environment label: positive gamma if spot_price > zero_gamma
Regime(spot_price, zero_gamma) ==
    IF Gt(spot_price, zero_gamma) THEN "positive" ELSE "negative"


(***************************************************************************)
(* The page script.  Every interaction reruns it from the top with the     *)
(* sidebar's current selection; the GEX analysis branch then iterates over *)
(* the selected symbols, and the module-level names it assigns keep their  *)
(* last value from one iteration to the next.                              *)
(***************************************************************************)

VARIABLES
    analysis_type,  \* the sidebar's selectbox
    symbols,        \* the sidebar's multiselect, in selection order
    idx,            \* how many symbols the running loop has processed
    status,         \* what the last iteration left on the page
    chains,         \* the option chain the last iteration fetched
    spot_price,
    now,            \* the clock reading of the last iteration
    selected_exps,
    exp_data,       \* the selected rows, each with its 'gex'
    gex_by_strike,  \* records [strike, gex, cumsum] (cumsum None before it is set)
    total_gex,
    zero_gamma,
    regime,
    calc,           \* the inputs of the Greeks calculator at its last click
    greeks,         \* what black_scholes_greeks returned or raised at that click
    log,            \* the log records the page script has written
    \* the dashboard of app.py
    main_module,    \* the sidebar's selectbox
    obb,            \* TRUE for the imported package, FALSE for None
    session_state,  \* st.session_state: the keys the script has set
    branch,         \* the branch of the if/elif chain the last run entered
    deriv           \* what the last run left in the derivatives page

gexvars == <<status, chains, spot_price, now, selected_exps, exp_data,
             gex_by_strike, total_gex, zero_gamma, regime>>
calcvars == <<calc, greeks>>
appvars == <<main_module, obb, session_state, branch, deriv>>
vars == <<analysis_type, symbols, idx, gexvars, calcvars, log, appvars>>

\* the longest chain a fetch returns
MaxRows == 2

AnalysisTypes == {"chain", "gex", "battlefield", "greeks"}
\* the symbols the sidebar offers; the model keeps the default one of the four
SymbolOptions == <<"QQQ">>

\* the selections of a multiselect: sequences of distinct options
Selections(opts) ==
    {q \in UNION {[1..n -> 1..Len(opts)] : n \in 0..Len(opts)} :
        \A i, j \in DOMAIN q : i # j => q[i] # q[j]}
SymbolChoices == {[i \in DOMAIN q |-> SymbolOptions[q[i]]] : q \in Selections(SymbolOptions)}

\* the rows a provider returns: well-formed rows around the money, and rows
\* with one field (or both nullable fields) null, zero, negative or malformed
StrikeVals == {Py(9 * SCALE), Py(10 * SCALE), Py(11 * SCALE)}
OIVals == {Py(0), Py(SCALE)}
NormalRows ==
    [strike : StrikeVals, open_interest : OIVals, implied_volatility : {Py(SCALE \div 4)},
     expiration : {Date(30)}, option_type : {"call", "put"}]
BaseRow ==
    [strike |-> Py(10 * SCALE), open_interest |-> Py(SCALE),
     implied_volatility |-> Py(SCALE \div 4), expiration |-> Date(30), option_type |-> "call"]
OddRows ==
    {[BaseRow EXCEPT !.implied_volatility = x] : x \in {None, NaN, Py(0), Py(-(SCALE \div 4))}}
    \cup {[BaseRow EXCEPT !.implied_volatility = Py(-(SCALE \div 4)), !.option_type = "put"]}
    \cup {[BaseRow EXCEPT !.open_interest = x, !.implied_volatility = x] : x \in {None, NaN}}
    \cup {[BaseRow EXCEPT !.strike = x] : x \in {NaN, Py(0)}}
    \cup {[BaseRow EXCEPT !.expiration = x] : x \in {BadDate, Date(0)}}
    \cup {[BaseRow EXCEPT !.option_type = "other"]}
Columns == {"strike", "open_interest", "implied_volatility", "expiration", "option_type"}

\* a row without one of its columns
Without(row, c) == [k \in (DOMAIN row) \ {c} |-> row[k]]

SeqsUpTo(S, n) == UNION {[1..m -> S] : m \in 0..n}

\* the chains a fetch returns: every column present, or one column absent
\* from every row (of at-the-money rows)
ChainInputs ==
    SeqsUpTo(NormalRows \cup OddRows, MaxRows)
    \cup UNION {SeqsUpTo({Without(r, c) : r \in {n \in NormalRows : n.strike = BaseRow.strike}},
                         MaxRows) : c \in Columns}

\* price_data['close']: empty, or one close
PriceInputs == {<<>>, <<Np(10 * SCALE)>>}

NowVals == [day : {0}, partial : BOOLEAN]

\* the first five expirations, offered by the multiselect
Offered(ch) == Head_n(SortedExpirations(ch), 5)

Range(seq) == {seq[i] : i \in DOMAIN seq}

\* the calculator's inputs before its button is clicked
NoCalc ==
    [S |-> None, K |-> None, T_days |-> 0, r |-> None, sigma |-> None, opt_type |-> "call"]

\* the derivatives page before it is rendered
NoDeriv ==
    [opt_symbol |-> "QQQ", chain |-> "none", iv_symbol |-> "SPY", surface |-> FALSE]

\* the dashboard after the first run of a session: the selectbox shows its
\* first option and st.session_state has no key
AppStart ==
    /\ main_module = "home"
    /\ session_state = <<>>
    /\ branch = "home"
    /\ deriv = NoDeriv

\* the page of options_gex.py after its first run
PageStart ==
    /\ analysis_type = "chain"
    /\ symbols = <<"QQQ">>
    /\ idx = 0
    /\ status = "none"
    /\ chains = <<>>
    /\ spot_price = None
    /\ now = [day |-> 0, partial |-> FALSE]
    /\ selected_exps = {}
    /\ exp_data = <<>>
    /\ gex_by_strike = <<>>
    /\ total_gex = None
    /\ zero_gamma = None
    /\ regime = "none"
    /\ calc = NoCalc
    /\ greeks = Raised("not called")
    /\ log = <<>>

Init == PageStart /\ obb = TRUE /\ AppStart

\* the script reruns from the top with a selection among choices
RerunTo(choices) ==
    /\ analysis_type' \in AnalysisTypes
    /\ symbols' \in choices
    /\ idx' = 0
    /\ status' = "none"
    /\ chains' = <<>>
    /\ spot_price' = None
    /\ selected_exps' = {}
    /\ exp_data' = <<>>
    /\ gex_by_strike' = <<>>
    /\ total_gex' = None
    /\ zero_gamma' = None
    /\ regime' = "none"
    /\ now' = [day |-> 0, partial |-> FALSE]
    /\ calc' = NoCalc
    /\ greeks' = Raised("not called")
    /\ UNCHANGED <<log, appvars>>

\* the user changes the sidebar: the script reruns from the top
Rerun == RerunTo(SymbolChoices)

\* the fetch of the chain or of the prices raises: st.error
GexFetchFails ==
    /\ status' = "error"
    /\ UNCHANGED <<chains, spot_price, now, selected_exps, exp_data, gex_by_strike,
                   total_gex, zero_gamma, regime>>

\* the chain is empty: continue
GexEmptyChain ==
    /\ chains' = <<>>
    /\ status' = "skipped"
    /\ UNCHANGED <<spot_price, now, selected_exps, exp_data, gex_by_strike,
                   total_gex, zero_gamma, regime>>

\* the statements from the groupby on, with a total_gex that is added to the
\* one the iteration before left
GexReduceCarry(grouped, spot) ==
    \E g \in {WithCumSum(grouped)} :
        /\ total_gex' = Add(SumSkipNa(GexColumn(grouped)),
                            IF IsFin(total_gex) THEN total_gex ELSE Np(0))
        /\ gex_by_strike' = g
        /\ IF IdxMinRaises(AbsColumn(g))
           THEN /\ status' = "error"
                /\ UNCHANGED <<zero_gamma, regime>>
           ELSE /\ status' = "metrics"
                /\ zero_gamma' = g[ZeroGammaIdx(g)].strike
                /\ regime' = Regime(spot, g[ZeroGammaIdx(g)].strike)

\* the statements from the groupby on, with a zero-gamma price interpolated
\* halfway to the next strike of the series
GexReduceInterpolated(grouped, spot) ==
    \E g \in {WithCumSum(grouped)} :
        /\ total_gex' = SumSkipNa(GexColumn(grouped))
        /\ gex_by_strike' = g
        /\ IF IdxMinRaises(AbsColumn(g))
           THEN /\ status' = "error"
                /\ UNCHANGED <<zero_gamma, regime>>
           ELSE \E k \in {ZeroGammaIdx(g)} :
                \E z \in {IF k < Len(g)
                          THEN Np((g[k].strike.v + g[k + 1].strike.v) \div 2)
                          ELSE g[k].strike} :
                    /\ status' = "metrics"
                    /\ zero_gamma' = z
                    /\ regime' = Regime(spot, z)

\* the statements from the groupby on: total_gex, the cumulative sum and
\* the zero-gamma strike of the grouped exposures
GexReduce(grouped, spot) ==
    \E g \in {WithCumSum(grouped)} :
        /\ total_gex' = SumSkipNa(GexColumn(grouped))
        /\ gex_by_strike' = g
        /\ IF IdxMinRaises(AbsColumn(g))
           THEN /\ status' = "error"
                /\ UNCHANGED <<zero_gamma, regime>>
           ELSE /\ status' = "metrics"
                /\ zero_gamma' = g[ZeroGammaIdx(g)].strike
                /\ regime' = Regime(spot, g[ZeroGammaIdx(g)].strike)

\* the body of the loop from `spot_price = ...` on, for a chain with rows
GexBody(ch, price_data, t, sel) ==
    \E spot \in {IF price_data # <<>> THEN price_data[Len(price_data)] ELSE Py(500 * SCALE)} :
        /\ chains' = ch
        /\ spot_price' = spot
        /\ IF "expiration" \notin DOMAIN ch[1]
           THEN /\ status' = "blank"
                /\ UNCHANGED <<now, selected_exps, exp_data, gex_by_strike, total_gex,
                               zero_gamma, regime>>
           ELSE /\ selected_exps' = sel
                /\ IF sel = {}
                   THEN /\ status' = "skipped"
                        /\ UNCHANGED <<now, exp_data, gex_by_strike, total_gex,
                                       zero_gamma, regime>>
                   ELSE \E data \in {WithGex(FilterExp(ch, sel), spot, t)} :
                        /\ now' = t
                        /\ exp_data' = data
                        /\ IF "strike" \notin DOMAIN ch[1]
                           THEN /\ status' = "error"
                                /\ UNCHANGED <<gex_by_strike, total_gex, zero_gamma, regime>>
                           ELSE \E grouped \in {GroupByStrike(data)} : GexReduce(grouped, spot)

\* one iteration of `for symbol in symbols` of the GEX analysis
GexSymbol ==
    /\ analysis_type = "gex"
    /\ idx < Len(symbols)
    /\ idx' = idx + 1
    /\ \/ GexFetchFails
       \/ GexEmptyChain
       \/ \E ch \in ChainInputs \ {<<>>}, price_data \in PriceInputs, t \in NowVals :
            \E sel \in SUBSET Range(IF "expiration" \in DOMAIN ch[1] THEN Offered(ch) ELSE <<>>) :
                GexBody(ch, price_data, t, sel)
    /\ UNCHANGED <<analysis_type, symbols, calcvars, log, appvars>>

\* the inputs of the calculator's widgets
CalcPrices == {Py(10 * SCALE), Py(0), Py(-10 * SCALE)}
CalcDays == {30, 0, -30}
CalcRates == {Py(5 * SCALE)}
CalcVols == {Py(20 * SCALE), Py(0), Py(-20 * SCALE)}

\* the click with an evaluator that keeps its first result and returns it
\* on every later call
GreeksCalcMemo ==
    /\ analysis_type = "greeks"
    /\ \E S \in CalcPrices, K \in CalcPrices, T_days \in CalcDays, r_pct \in CalcRates,
          iv_pct \in CalcVols, opt_type \in {"call", "put"} :
         LET r == Div(r_pct, Py(100 * SCALE))
             sigma == Div(iv_pct, Py(100 * SCALE))
         IN  /\ calc' = [S |-> S, K |-> K, T_days |-> T_days, r |-> r, sigma |-> sigma,
                         opt_type |-> opt_type]
             /\ greeks' = IF calc # NoCalc THEN greeks
                          ELSE black_scholes_greeks(S, K, Div(Py(T_days * SCALE), Py(365 * SCALE)),
                                                    r, sigma, opt_type)
    /\ UNCHANGED <<analysis_type, symbols, idx, gexvars, log, appvars>>

\* the button of the Greeks calculator is clicked, the widgets holding a
\* price, a strike, a number of days and a volatility among the given ones
GreeksClick(prices, strikes, days, vols) ==
    /\ analysis_type = "greeks"
    /\ \E S \in prices, K \in strikes, T_days \in days, r_pct \in CalcRates,
          iv_pct \in vols, opt_type \in {"call", "put"} :
         LET r == Div(r_pct, Py(100 * SCALE))
             sigma == Div(iv_pct, Py(100 * SCALE))
         IN  /\ calc' = [S |-> S, K |-> K, T_days |-> T_days, r |-> r, sigma |-> sigma,
                         opt_type |-> opt_type]
             /\ greeks' = black_scholes_greeks(S, K, Div(Py(T_days * SCALE), Py(365 * SCALE)),
                                               r, sigma, opt_type)
    /\ UNCHANGED <<analysis_type, symbols, idx, gexvars, log, appvars>>

GreeksCalc == GreeksClick(CalcPrices, CalcPrices, CalcDays, CalcVols)

Next == Rerun \/ GexSymbol \/ GreeksCalc

Spec == Init /\ [][Next]_vars


(***************************************************************************)
(* The end-to-end scenario of the documentation: a call and a put of       *)
(* strike 100 and implied volatility 0.25 that expire in 30 days, at spot  *)
(* 100.  Open interests are in units of 100 contracts (10 for 1000, 8 for  *)
(* 800), which keeps every intermediate product within the integer range.  *)
(***************************************************************************)

ScenarioOI == {Py(k * SCALE) : k \in {0, 2, 4, 6, 8, 10}}

ScenarioRow(ty, oi) ==
    [strike |-> Py(100 * SCALE), open_interest |-> oi,
     implied_volatility |-> Py(SCALE \div 4), expiration |-> Date(30), option_type |-> ty]

\* the chain of the scenario, the call first or the put first
ScenarioChains ==
    UNION {{<<ScenarioRow("call", a), ScenarioRow("put", b)>>,
            <<ScenarioRow("put", b), ScenarioRow("call", a)>>} : a \in ScenarioOI, b \in ScenarioOI}

\* price_data['close'] of the scenario
ScenarioPrices == <<Np(100 * SCALE)>>

\* one iteration of the GEX analysis on the scenario's chain
ScenarioSymbol ==
    /\ analysis_type = "gex"
    /\ idx < Len(symbols)
    /\ idx' = idx + 1
    /\ \E ch \in ScenarioChains, t \in NowVals :
         \E sel \in SUBSET Range(Offered(ch)) : GexBody(ch, ScenarioPrices, t, sel)
    /\ UNCHANGED <<analysis_type, symbols, calcvars, log, appvars>>

NextScenario == Rerun \/ ScenarioSymbol

SpecScenario == Init /\ [][NextScenario]_vars


(***************************************************************************)
(* The GEX analysis of several symbols: the sidebar offers two of its four *)
(* symbols, in either order, and each fetch returns a chain of a call, a   *)
(* put of another strike, or a row without strike.                         *)
(***************************************************************************)

TwoSymbols == <<"QQQ", "SPY">>
TwoSymbolChoices == {[i \in DOMAIN q |-> TwoSymbols[q[i]]] : q \in Selections(TwoSymbols)}

SymbolRows ==
    {BaseRow,
     [BaseRow EXCEPT !.strike = Py(11 * SCALE), !.option_type = "put"],
     [BaseRow EXCEPT !.strike = NaN]}
SymbolChains == SeqsUpTo(SymbolRows, MaxRows) \ {<<>>}

RerunSymbols == RerunTo(TwoSymbolChoices)

\* one iteration of `for symbol in symbols` of the GEX analysis
GexSymbolOfTwo ==
    /\ analysis_type = "gex"
    /\ idx < Len(symbols)
    /\ idx' = idx + 1
    /\ \/ GexFetchFails
       \/ GexEmptyChain
       \/ \E ch \in SymbolChains, price_data \in PriceInputs, t \in NowVals :
            \E sel \in SUBSET Range(Offered(ch)) : GexBody(ch, price_data, t, sel)
    /\ UNCHANGED <<analysis_type, symbols, calcvars, log, appvars>>

NextSymbols == RerunSymbols \/ GexSymbolOfTwo

SpecSymbols == Init /\ [][NextSymbols]_vars

(***************************************************************************)
(* The Greeks calculator on a grid of valid inputs: prices on both sides   *)
(* of two strikes, an expiry today, in a month and in a year, a moderate   *)
(* and a high volatility.                                                  *)
(***************************************************************************)

GridPrices == {Py(k * SCALE) : k \in {6, 8, 9, 10, 11, 12, 14}}
GridStrikes == {Py(k * SCALE) : k \in {8, 10}}
GridDays == {0, 30, 365}
GridVols == {Py(20 * SCALE), Py(50 * SCALE)}

GreeksCalcGrid == GreeksClick(GridPrices, GridStrikes, GridDays, GridVols)

NextGrid == Rerun \/ GreeksCalcGrid

SpecGrid == Init /\ [][NextGrid]_vars

(***************************************************************************)
(* The dashboard of app.py.  Every interaction reruns the script: the      *)
(* sidebar's selectbox picks the module and an if/elif chain renders it.   *)
(* st.session_state is the only state a run hands to the next one.  The    *)
(* module labels are written without their emoji and translation:          *)
(* "derivatives" is "🎯 衍生品 (Derivatives)", "index" is "📊 指数 (Index)".  *)
(***************************************************************************)

\* the options of the selectbox
Modules ==
    <<"home", "equity", "derivatives", "etf", "index", "economy", "currency", "technical",
      "quantitative", "crypto", "news", "commodity", "fixedincome", "regulators">>

\* the labels the if/elif chain compares main_module with, in its order
Chain ==
    <<"home", "equity", "derivatives", "etf", "economy", "currency", "technical",
      "quantitative", "crypto", "news", "commodity", "fixedincome", "regulators">>

\* the branch the chain enters for a module: none when no comparison matches
Branch(m) == IF \E i \in DOMAIN Chain : Chain[i] = m THEN m ELSE "none"

\* what the user types in the two text inputs of the derivatives page
OptSymbols == {"QQQ", "SPY", "IWM", ""}
IvSymbols == {"SPY", "QQQ"}
\* the button that returns True in a run: at most one, the clicked one
Buttons == {"none", "opt_chain", "iv_surface"}
\* what the fetch of the chain leads to: an exception (st.error), an empty
\* chain, a chain without expiration column, the tables of calls and puts
ChainOutcomes == {"error", "empty", "raw", "table"}

\* st.session_state[key] = value
SetKey(state, key, value) ==
    [k \in (DOMAIN state) \cup {key} |-> IF k = key THEN value ELSE state[k]]

\* a run of another module that clears st.session_state
RunModuleClearing ==
    /\ \E m \in Range(Modules) \ {"derivatives"} :
         /\ main_module' = m
         /\ branch' = Branch(m)
    /\ deriv' = NoDeriv
    /\ session_state' = <<>>
    /\ UNCHANGED obb
    /\ UNCHANGED <<analysis_type, symbols, idx, gexvars, calcvars, log>>

\* a run with the selectbox on a module other than the derivatives one
RunModule ==
    /\ \E m \in Range(Modules) \ {"derivatives"} :
         /\ main_module' = m
         /\ branch' = Branch(m)
    /\ deriv' = NoDeriv
    /\ UNCHANGED <<obb, session_state>>
    /\ UNCHANGED <<analysis_type, symbols, idx, gexvars, calcvars, log>>

\* a run with the selectbox on the derivatives module
RunDerivatives ==
    /\ main_module' = "derivatives"
    /\ branch' = Branch("derivatives")
    /\ IF ~obb
       THEN /\ deriv' = NoDeriv
            /\ UNCHANGED session_state
       ELSE \E opt_symbol \in OptSymbols, iv_symbol \in IvSymbols, button \in Buttons,
               outcome \in ChainOutcomes :
            /\ session_state' = IF button = "opt_chain"
                                 THEN SetKey(session_state, "fetch_options", TRUE)
                                 ELSE session_state
            /\ deriv' = [opt_symbol |-> opt_symbol,
                         chain |-> IF Get(session_state', "fetch_options", FALSE)
                                   THEN outcome ELSE "none",
                         iv_symbol |-> iv_symbol,
                         surface |-> (button = "iv_surface")]
    /\ UNCHANGED obb
    /\ UNCHANGED <<analysis_type, symbols, idx, gexvars, calcvars, log>>

\* a session starts with the package imported or not
InitApp == PageStart /\ obb \in BOOLEAN /\ AppStart

NextApp == RunModule \/ RunDerivatives

SpecApp == InitApp /\ [][NextApp]_vars


(***************************************************************************)
(* Properties                                                              *)
(***************************************************************************)

\* the last iteration computed the 'gex' column of the selected rows
Computed == status \in {"metrics", "error"} /\ exp_data # <<>>

\* the rows of exp_data, without their 'gex'
RowsOf(data) == [i \in 1..Len(data) |-> data[i].row]

RECURSIVE FinGexSum(_, _)
\* the sum of the 'gex' of the rows of data at the positions I, in 1/SCALE
\* units, a 'gex' that is NaN counting for nothing
FinGexSum(data, I) ==
    IF I = {} THEN 0
    ELSE LET i == CHOOSE x \in I : TRUE
         IN  (IF IsFin(data[i].gex) THEN data[i].gex.v ELSE 0) + FinGexSum(data, I \ {i})

\* the button of the calculator was clicked
Clicked == calc # NoCalc

\* the calculator's inputs are outside the evaluator's contract
InvalidInput ==
    Le(calc.sigma, Py(0)) \/ Le(calc.S, Py(0)) \/ Le(calc.K, Py(0))

\* C1: whenever sigma <= 0 or S <= 0 or K <= 0, black_scholes_greeks fails
\* with InvalidInputError; it returns no GreeksResult for such inputs.
C1_InvalidInputRaises ==
    (Clicked /\ InvalidInput) => greeks.exc = "InvalidInputError"

\* how C1 fails: for sigma = 0 the call returns a result whose gamma is NaN
C1_ReturnsNaN ==
    Clicked /\ calc.sigma = Py(0) /\ greeks.exc = "none" /\ IsNaN(greeks.gamma)

\* a step of calculate_gex raises for the row: the strike is absent, the
\* expiration is no date, or a Python number is divided by a Python zero
StepFails(row, spot) ==
    \/ "strike" \notin DOMAIN row
    \/ "expiration" \in DOMAIN row /\ row["expiration"] = BadDate
    \/ "strike" \in DOMAIN row /\ spot.t = "py" /\ row["strike"] = Py(0)

RECURSIVE DropFailed(_, _)
\* data without the records whose row fails
DropFailed(data, spot) ==
    IF data = <<>> THEN <<>>
    ELSE (IF StepFails(Head(data).row, spot) THEN <<>> ELSE <<Head(data)>>)
         \o DropFailed(Tail(data), spot)

\* the row has no strike: the key is absent, or its value is NaN as pandas
\* stores a missing number
MissingStrike(row) == "strike" \notin DOMAIN row \/ IsNaN(row["strike"])

\* C2 as stated: calculate_gex returns a value for every row, and whenever a
\* step of the row's computation fails, a missing strike included, the
\* returned exposure is exactly 0.
C2_AnyFailureIsZero ==
    Computed => \A i \in 1..Len(exp_data) :
        (StepFails(exp_data[i].row, spot_price) \/ MissingStrike(exp_data[i].row))
            => IsFin(exp_data[i].gex) /\ exp_data[i].gex.v = 0

\* C2 amended: calculate_gex returns a value for every row; when a step of the
\* row's computation raises, the value is exactly 0; a strike that is NaN
\* raises nothing and the value is NaN; the other rows' exposures are what
\* they are for the chain without the raising rows.
C2_RaisingRowIsZero ==
    Computed =>
        /\ \A i \in 1..Len(exp_data) :
              /\ StepFails(exp_data[i].row, spot_price)
                    => IsFin(exp_data[i].gex) /\ exp_data[i].gex.v = 0
              /\ (~StepFails(exp_data[i].row, spot_price) /\ MissingStrike(exp_data[i].row))
                    => IsNaN(exp_data[i].gex)
        /\ WithGex(RowsOf(DropFailed(exp_data, spot_price)), spot_price, now)
              = DropFailed(exp_data, spot_price)

\* a failing row next to a row with a non-zero exposure
C2_Witness ==
    /\ Computed
    /\ \E i, j \in 1..Len(exp_data) :
          /\ StepFails(exp_data[i].row, spot_price)
          /\ IsFin(exp_data[j].gex) /\ exp_data[j].gex.v # 0

\* a null field: Python None or float NaN
IsNull(x) == x.t \in {"none", "nan"}

\* the row's implied volatility and open interest are both null
BothNull(row) ==
    /\ "implied_volatility" \in DOMAIN row /\ IsNull(row["implied_volatility"])
    /\ "open_interest" \in DOMAIN row /\ IsNull(row["open_interest"])

\* the positions of exp_data, other than i, whose row has the strike of row i
SameStrikeOthers(i) ==
    {j \in 1..Len(exp_data) :
        /\ j # i
        /\ IsFin(exp_data[j].row["strike"])
        /\ exp_data[j].row["strike"].v = exp_data[i].row["strike"].v}

\* the positions of exp_data, other than i
Others(i) == (1..Len(exp_data)) \ {i}

\* C3: a chain with a row whose implied volatility and open interest are
\* both null produces a result, and that row adds nothing to the GEX of its
\* strike and nothing to the net GEX.
C3_NullRowContributesZero ==
    \A i \in 1..Len(exp_data) :
        (Computed /\ "strike" \in DOMAIN exp_data[i].row /\ BothNull(exp_data[i].row)
            /\ IsFin(exp_data[i].row["strike"]))
        => /\ status = "metrics"
           /\ \E k \in 1..Len(gex_by_strike) :
                 /\ gex_by_strike[k].strike.v = exp_data[i].row["strike"].v
                 /\ IsFin(gex_by_strike[k].gex)
                 /\ gex_by_strike[k].gex.v = FinGexSum(exp_data, SameStrikeOthers(i))
           /\ IsFin(total_gex)
           /\ total_gex.v = FinGexSum(exp_data, Others(i))

\* a row with both fields NaN beside a row of the same strike with a
\* non-zero exposure
C3_Witness ==
    /\ status = "metrics"
    /\ \E i, j \in 1..Len(exp_data) :
          /\ BothNull(exp_data[i].row)
          /\ IsNaN(exp_data[i].row["open_interest"])
          /\ j \in SameStrikeOthers(i)
          /\ IsFin(exp_data[j].gex) /\ exp_data[j].gex.v # 0

\* the documented volatility: the row's when present and strictly
\* positive, 0.30 otherwise
ExpectedSigma(row) ==
    IF "implied_volatility" \in DOMAIN row /\ Gt(row["implied_volatility"], Py(0))
    THEN row["implied_volatility"]
    ELSE Py((3 * SCALE) \div 10)

\* C4: the volatility passed to the evaluator is the row's implied volatility
\* when that is present and strictly positive, 0.30 in every other case.
C4_SigmaFallback ==
    Computed => \A i \in 1..Len(exp_data) :
        RowIV(exp_data[i].row) = ExpectedSigma(exp_data[i].row)


\* the row's gamma, when the evaluator returns one
GammaOf(row) == RowGreeks(row, spot_price, now).gamma

\* no step of calculate_gex raises for the row
Evaluated(row) ==
    ~RowRaises(row) /\ RowGreeks(row, spot_price, now).exc = "none"

\* neither the row's gamma nor its open interest is negative
NonNegativeInputs(row) ==
    Evaluated(row) =>
        /\ ~(IsFin(GammaOf(row)) /\ GammaOf(row).v < 0)
        /\ ~(IsFin(RowOI(row)) /\ RowOI(row).v < 0)

\* every selected row has the option type ty
AllOfType(ty) ==
    \A i \in 1..Len(exp_data) :
        /\ "option_type" \in DOMAIN exp_data[i].row
        /\ exp_data[i].row["option_type"] = ty

\* no selected row has a negative gamma or open interest
AllNonNegative ==
    \A i \in 1..Len(exp_data) : NonNegativeInputs(exp_data[i].row)

\* every per-strike GEX and the net GEX are at or above zero
GexNotBelowZero ==
    /\ \A k \in 1..Len(gex_by_strike) : gex_by_strike[k].gex.v >= 0
    /\ total_gex.v >= 0

\* every per-strike GEX and the net GEX are at or below zero
GexNotAboveZero ==
    /\ \A k \in 1..Len(gex_by_strike) : gex_by_strike[k].gex.v <= 0
    /\ total_gex.v <= 0

\* C5: a chain of calls only, with no negative gamma or open interest, has
\* every per-strike GEX and the net GEX >= 0; a chain of puts only has every
\* per-strike GEX and the net GEX <= 0.
C5_SignConvention ==
    status = "metrics" =>
        /\ (AllOfType("call") /\ AllNonNegative) => GexNotBelowZero
        /\ AllOfType("put") => GexNotAboveZero

\* the sign convention where no row has a negative gamma or open interest:
\* calls only give GEX >= 0, puts only give GEX <= 0
SignGivenInputs ==
    (status = "metrics" /\ AllNonNegative) =>
        /\ AllOfType("call") => GexNotBelowZero
        /\ AllOfType("put") => GexNotAboveZero

\* contract sizes a caller may pass in place of the default
OtherContractSizes == {Py(10 * SCALE), Py(SCALE)}

\* |gamma * oi * spot^2 * contract_size * 0.01| for the row, gamma the evaluator's for
\* (spot, strike, T, 0.05, sigma, option type)
ExpectedMagnitude(row, contract_size) ==
    LET gamma == black_scholes_greeks(spot_price, row["strike"], RowT(row, now),
                                      Py((5 * SCALE) \div 100), RowIV(row),
                                      Get(row, "option_type", "call")).gamma
    IN  Abs(Mul(Mul(Mul(Mul(gamma, RowOI(row)), Mul(spot_price, spot_price)),
                    contract_size), Py(SCALE \div 100)))

\* C6: for a row whose computation does not fail, the magnitude of the
\* exposure is |gamma * oi * spot^2 * contract_size * 0.01| with
\* contract_size 100 and gamma the evaluator's at r = 0.05.
C6_ExposureFormula ==
    Computed => \A i \in 1..Len(exp_data) :
        Evaluated(exp_data[i].row)
            => /\ Abs(exp_data[i].gex) = ExpectedMagnitude(exp_data[i].row, Py(100 * SCALE))
               /\ \A cs \in OtherContractSizes :
                     Abs(calculate_gex(exp_data[i].row, spot_price, cs, now))
                         = ExpectedMagnitude(exp_data[i].row, cs)

\* a row with a non-zero exposure
C6_Witness ==
    /\ Computed
    /\ \E i \in 1..Len(exp_data) :
          /\ Evaluated(exp_data[i].row)
          /\ IsFin(exp_data[i].gex) /\ exp_data[i].gex.v # 0

\* p is a put, c a call, and the rows are otherwise the same
PutOfCall(p, c) ==
    /\ "option_type" \in DOMAIN p /\ p["option_type"] = "put"
    /\ c = [p EXCEPT !["option_type"] = "call"]

\* C7: for two rows that differ in their option type only, the put's signed
\* exposure is the exact negation of the call's.
C7_PutNegatesCall ==
    Computed => \A i, j \in 1..Len(exp_data) :
        PutOfCall(exp_data[i].row, exp_data[j].row)
            => exp_data[i].gex = Neg(exp_data[j].gex)

\* a put and its call, with a non-zero exposure
C7_Witness ==
    /\ Computed
    /\ \E i, j \in 1..Len(exp_data) :
          /\ PutOfCall(exp_data[i].row, exp_data[j].row)
          /\ IsFin(exp_data[j].gex) /\ exp_data[j].gex.v > 0

RECURSIVE RunningSum(_)
\* the sum of the GEX of the first k strikes, in 1/SCALE units
RunningSum(k) == IF k = 0 THEN 0 ELSE gex_by_strike[k].gex.v + RunningSum(k - 1)

\* C8: the zero-gamma level is the strike at which the absolute value of the
\* running sum of the per-strike GEX, in ascending strike order, is smallest;
\* of several such strikes it is the lowest.
C8_ZeroGamma ==
    status = "metrics" =>
        \E i \in 1..Len(gex_by_strike) :
            /\ zero_gamma = gex_by_strike[i].strike
            /\ \A j \in 1..Len(gex_by_strike) :
                  /\ AbsI(RunningSum(i)) <= AbsI(RunningSum(j))
                  /\ j < i => /\ AbsI(RunningSum(j)) > AbsI(RunningSum(i))
                              /\ gex_by_strike[j].strike.v < gex_by_strike[i].strike.v

\* two strikes tie for the smallest absolute running sum, which is not zero
C8_Witness ==
    /\ status = "metrics"
    /\ \E i, j \in 1..Len(gex_by_strike) :
          /\ i < j
          /\ zero_gamma = gex_by_strike[i].strike
          /\ AbsI(RunningSum(i)) = AbsI(RunningSum(j))
          /\ RunningSum(i) # 0

\* the positions of the rows of the chain whose expiration is selected
SelectedPositions == {i \in 1..Len(chains) : chains[i]["expiration"] \in selected_exps}

\* the positions of exp_data whose row has the strike k
AtStrike(k) ==
    {i \in 1..Len(exp_data) :
        IsFin(exp_data[i].row["strike"]) /\ exp_data[i].row["strike"].v = k}

\* C9: the per-strike series holds each distinct strike of the selected rows
\* once, in strictly ascending order, with the sum of the signed exposures of
\* all selected rows of that strike.
C9_PerStrikeSeries ==
    status = "metrics" =>
        /\ Len(exp_data) = Cardinality(SelectedPositions)
        /\ \A i \in 1..Len(exp_data) : \E c \in SelectedPositions : chains[c] = exp_data[i].row
        /\ \A c \in SelectedPositions : \E i \in 1..Len(exp_data) : chains[c] = exp_data[i].row
        /\ \A k \in 1..(Len(gex_by_strike) - 1) :
              gex_by_strike[k].strike.v < gex_by_strike[k + 1].strike.v
        /\ {gex_by_strike[k].strike.v : k \in 1..Len(gex_by_strike)}
              = {exp_data[i].row["strike"].v :
                    i \in {j \in 1..Len(exp_data) : IsFin(exp_data[j].row["strike"])}}
        /\ \A k \in 1..Len(gex_by_strike) :
              /\ IsFin(gex_by_strike[k].gex)
              /\ gex_by_strike[k].gex.v = FinGexSum(exp_data, AtStrike(gex_by_strike[k].strike.v))

\* two selected rows of one strike, whose exposures add up to the strike's
C9_Witness ==
    /\ status = "metrics"
    /\ Len(gex_by_strike) = 1
    /\ \E i, j \in 1..Len(exp_data) :
          /\ i < j
          /\ IsFin(exp_data[i].gex) /\ exp_data[i].gex.v # 0
          /\ IsFin(exp_data[j].gex) /\ exp_data[j].gex.v # 0
          /\ exp_data[i].gex.v # exp_data[j].gex.v
          /\ gex_by_strike[1].gex.v = exp_data[i].gex.v + exp_data[j].gex.v

\* C10: the net GEX is the sum of the per-strike GEX, which is the sum of the
\* signed exposures of all selected rows and the last value of the running
\* cumulative sum.
C10_NetGex ==
    status = "metrics" =>
        /\ IsFin(total_gex)
        /\ total_gex.v = RunningSum(Len(gex_by_strike))
        /\ total_gex.v = FinGexSum(exp_data, 1..Len(exp_data))
        /\ total_gex = gex_by_strike[Len(gex_by_strike)].cumsum

\* two strikes with exposures of their own and a net GEX that is not zero
C10_Witness ==
    /\ status = "metrics"
    /\ Len(gex_by_strike) = 2
    /\ gex_by_strike[1].gex.v # 0
    /\ gex_by_strike[2].gex.v # 0
    /\ total_gex.v # 0
    /\ total_gex.v = gex_by_strike[1].gex.v + gex_by_strike[2].gex.v


\* the iteration ended at a `continue`: the chain has no rows, or no
\* expiration is selected
EmptyInput == status = "skipped"

\* C11: for an empty chain (no rows, or no expiration selected) the GEX
\* analysis reports net GEX = 0 and no numeric zero-gamma strike.
C11_EmptyReportsZero ==
    EmptyInput => /\ IsFin(total_gex) /\ total_gex.v = 0
                  /\ ~IsFin(zero_gamma)

\* every row of the fetched chain has open interest 0
AllZeroOI ==
    /\ chains # <<>>
    /\ \A i \in 1..Len(chains) :
          "open_interest" \in DOMAIN chains[i] /\ chains[i]["open_interest"] = Py(0)

\* some selected row has a strike that is a number
SomeStrike ==
    \E i \in 1..Len(exp_data) :
        "strike" \in DOMAIN exp_data[i].row /\ IsFin(exp_data[i].row["strike"])

\* C12: for a non-empty chain in which every row has open interest 0, every
\* per-strike GEX is 0, net GEX is 0, and a zero-gamma strike is reported
\* that is one of the chain's strikes.
C12_AllZeroOpenInterest ==
    (Computed /\ AllZeroOI /\ SomeStrike) =>
        /\ status = "metrics"
        /\ gex_by_strike # <<>>
        /\ \A k \in 1..Len(gex_by_strike) :
              IsFin(gex_by_strike[k].gex) /\ gex_by_strike[k].gex.v = 0
        /\ IsFin(total_gex) /\ total_gex.v = 0
        /\ IsFin(zero_gamma)
        /\ \E i \in 1..Len(chains) : chains[i]["strike"].v = zero_gamma.v

\* two rows of different strikes, both with open interest 0: the lower
\* strike is reported
C12_Witness ==
    /\ status = "metrics"
    /\ AllZeroOI
    /\ Len(exp_data) = 2
    /\ exp_data[1].row["strike"].v > exp_data[2].row["strike"].v
    /\ zero_gamma.v = exp_data[2].row["strike"].v

\* C13: the regime label is "positive" exactly when the spot price is
\* strictly above the zero-gamma strike, "negative" otherwise, equality
\* included.
C13_RegimeLabel ==
    status = "metrics" =>
        /\ regime \in {"positive", "negative"}
        /\ regime = "positive"
              <=> (IsFin(spot_price) /\ IsFin(zero_gamma) /\ spot_price.v > zero_gamma.v)

\* the spot price equals the zero-gamma strike
C13_Witness ==
    /\ status = "metrics"
    /\ IsFin(spot_price) /\ IsFin(zero_gamma)
    /\ spot_price.v = zero_gamma.v
    /\ regime = "negative"


\* whole days from the clock reading of the iteration to the row's expiration
WholeDays(row) == row["expiration"].v - now.day - (IF now.partial THEN 1 ELSE 0)

\* x, in 1/SCALE units, is n / 365 rounded to the nearest unit
IsYearsOf(x, n) == 2 * AbsI(365 * x - n * SCALE) <= 365

\* C14: the T of calculate_gex is the days from now to the expiration over
\* 365, floored at 0.001, when the row has an expiration, and 30/365 when it
\* has none; it is strictly positive in every case.
C14_TimeToExpiry ==
    /\ \A i \in 1..Len(chains) :
          "expiration" \notin DOMAIN chains[i]
              => /\ IsFin(RowT(chains[i], now))
                 /\ IsYearsOf(RowT(chains[i], now).v, 30)
                 /\ RowT(chains[i], now).v > 0
    /\ Computed => \A i \in 1..Len(exp_data) :
          exp_data[i].row["expiration"].t = "date"
              => /\ IsFin(RowT(exp_data[i].row, now))
                 /\ RowT(exp_data[i].row, now).v > 0
                 /\ IF WholeDays(exp_data[i].row) <= 0
                    THEN RowT(exp_data[i].row, now).v = 1
                    ELSE IsYearsOf(RowT(exp_data[i].row, now).v, WholeDays(exp_data[i].row))

\* a selected row that expired before the clock reading: T is the floor
C14_Witness ==
    /\ Computed
    /\ \E i \in 1..Len(exp_data) :
          /\ exp_data[i].row["expiration"].t = "date"
          /\ WholeDays(exp_data[i].row) < 0
          /\ RowT(exp_data[i].row, now) = Py(1)


\* the call's and the put's open interest in a chain of two rows
CallOI == IF chains[1]["option_type"] = "call" THEN chains[1]["open_interest"]
          ELSE chains[2]["open_interest"]
PutOI == IF chains[1]["option_type"] = "put" THEN chains[1]["open_interest"]
         ELSE chains[2]["open_interest"]

\* the scenario was analysed with both rows selected, 30 whole days before
\* the expiration
ScenarioAnalysed ==
    /\ status = "metrics"
    /\ chains \in ScenarioChains
    /\ Len(exp_data) = 2
    /\ WholeDays(chains[1]) = 30

\* gamma(S=100, K=100, T=30/365, r=0.05, sigma=0.25)
ScenarioGamma ==
    black_scholes_greeks(Np(100 * SCALE), Py(100 * SCALE), Div(Py(30 * SCALE), Py(365 * SCALE)),
                         Py((5 * SCALE) \div 100), Py(SCALE \div 4), "call").gamma

\* x is within a thousandth of y
Close(x, y) == 1000 * AbsI(x.v - y.v) <= AbsI(y.v)

\* C15 as stated: the scenario's net GEX is
\* gamma(100, 100, 30/365, 0.05, 0.25) * 100^2 * 0.01 * (oi_call - oi_put).
C15_NetGexAsStated ==
    ScenarioAnalysed =>
        Close(total_gex,
              Mul(Mul(Mul(ScenarioGamma, Py(100 * 100 * SCALE)), Py(SCALE \div 100)),
                  Sub(CallOI, PutOI)))

\* C15 amended: the scenario's net GEX is
\* gamma(100, 100, 30/365, 0.05, 0.25) * 100^2 * 100 * 0.01 * (oi_call - oi_put),
\* the contract size 100 included.
C15_NetGexScenario ==
    ScenarioAnalysed =>
        Close(total_gex,
              Mul(Mul(Mul(Mul(ScenarioGamma, Py(100 * 100 * SCALE)), Py(100 * SCALE)),
                      Py(SCALE \div 100)),
                  Sub(CallOI, PutOI)))

\* the scenario with open interests 10 and 8: the net GEX is above zero
C15_Witness ==
    /\ ScenarioAnalysed
    /\ CallOI = Py(10 * SCALE)
    /\ PutOI = Py(8 * SCALE)
    /\ total_gex.v > 0


\* the T the calculator passes: T_days / 365
CalcT == Div(Py(calc.T_days * SCALE), Py(365 * SCALE))

\* what the evaluator gives for the calculator's inputs with T and the option
\* type replaced
CalcGreeks(T, option_type) ==
    black_scholes_greeks(calc.S, calc.K, T, calc.r, calc.sigma, option_type)

\* the calculator's price, strike and volatility are above zero
ValidInput ==
    Gt(calc.S, Py(0)) /\ Gt(calc.K, Py(0)) /\ Gt(calc.sigma, Py(0))

\* C16: for T <= 0 black_scholes_greeks returns exactly what it returns for
\* T = 0.001 with the other arguments unchanged, and does not fail on valid
\* inputs; for T > 0 the given T is used as it is.
C16_FloorOnT ==
    Clicked =>
        /\ calc.T_days <= 0 =>
              /\ greeks = CalcGreeks(Py(1), calc.opt_type)
              /\ ValidInput => greeks.exc = "none" /\ IsFin(greeks.gamma)
        /\ (calc.T_days > 0 /\ greeks.exc = "none") =>
              /\ greeks.gamma = Gamma(calc.S, calc.sigma, Sqrt(CalcT),
                                      D1(calc.S, calc.K, CalcT, calc.r, calc.sigma, Sqrt(CalcT)))
              /\ greeks.vega = Vega(calc.S, Sqrt(CalcT),
                                    D1(calc.S, calc.K, CalcT, calc.r, calc.sigma, Sqrt(CalcT)))

\* a click with valid inputs and a negative number of days
C16_Witness ==
    /\ Clicked
    /\ ValidInput
    /\ calc.T_days < 0
    /\ greeks.exc = "none"
    /\ IsFin(greeks.gamma) /\ greeks.gamma.v > 0

\* the option type the calculator was not clicked with
OtherType == IF calc.opt_type = "call" THEN "put" ELSE "call"

\* the results for a call and for a put at the calculator's inputs: the one
\* of the click and the one of the other option type
OfCall == IF calc.opt_type = "call" THEN greeks ELSE CalcGreeks(CalcT, "call")
OfPut == IF calc.opt_type = "put" THEN greeks ELSE CalcGreeks(CalcT, "put")

\* C17: for valid (S, K, T, r, sigma) the delta of the call minus the delta
\* of the put is 1.
C17_DeltaParity ==
    (Clicked /\ ValidInput) =>
        /\ OfCall.exc = "none" /\ OfPut.exc = "none"
        /\ IsFin(OfCall.delta) /\ IsFin(OfPut.delta)
        /\ OfCall.delta.v - OfPut.delta.v = SCALE

\* a click for a put with valid inputs: its delta is below zero
C17_Witness ==
    /\ Clicked
    /\ ValidInput
    /\ calc.opt_type = "put"
    /\ IsFin(greeks.delta) /\ greeks.delta.v < 0

\* C18: for identical (S, K, T, r, sigma) the evaluator returns the same
\* gamma and the same vega for a call and for a put.
C18_GammaVegaSymmetry ==
    Clicked =>
        /\ OfCall.exc = OfPut.exc
        /\ OfCall.exc = "none" =>
              /\ OfCall.gamma = OfPut.gamma
              /\ OfCall.vega = OfPut.vega

\* a click for a put with valid inputs: gamma and vega are above zero
C18_Witness ==
    /\ Clicked
    /\ ValidInput
    /\ calc.opt_type = "put"
    /\ IsFin(greeks.gamma) /\ greeks.gamma.v > 0
    /\ IsFin(greeks.vega) /\ greeks.vega.v > 0


\* the result on the page is the evaluator's for the inputs of the click,
\* whatever was computed before
SameInputsSameOutputs ==
    Clicked => greeks = CalcGreeks(CalcT, calc.opt_type)

\* a call of the evaluator leaves every name outside the calculator alone
CallChangesNothingElse ==
    (calc' # NoCalc /\ <<calc, greeks>>' # <<calc, greeks>>)
        => UNCHANGED <<analysis_type, symbols, idx, gexvars, log, appvars>>

RowOrders(n) == {p \in [1..n -> 1..n] : \A i, j \in 1..n : i # j => p[i] # p[j]}

\* the fetched chain with its rows in the order p
Permuted(p) == [i \in 1..Len(chains) |-> chains[p[i]]]

\* the per-strike series, with its cumulative sums, of the chain ch for the
\* selection, spot price and clock reading of the last iteration
SeriesOf(ch) ==
    WithCumSum(GroupByStrike(WithGex(FilterExp(ch, selected_exps), spot_price, now)))

\* the analysis of ch gives the per-strike series, the net GEX and the
\* zero-gamma strike on the page
SameResult(ch) ==
    LET series == SeriesOf(ch)
    IN  /\ series = gex_by_strike
        /\ SumSkipNa(GexColumn(series)) = total_gex
        /\ IF IdxMinRaises(AbsColumn(series))
           THEN status = "error"
           ELSE /\ status = "metrics"
                /\ series[ZeroGammaIdx(series)].strike = zero_gamma

\* C20: the result of the GEX analysis does not depend on the order of the
\* rows of the chain: every permutation of the rows gives the same per-strike
\* series, net GEX and zero-gamma strike.
C20_OrderIndependent ==
    (Computed /\ "strike" \in DOMAIN chains[1]) =>
        \A p \in RowOrders(Len(chains)) : SameResult(Permuted(p))

\* two selected rows with different exposures, the higher strike first
C20_Witness ==
    /\ status = "metrics"
    /\ Len(exp_data) = 2
    /\ exp_data[1].row["strike"].v > exp_data[2].row["strike"].v
    /\ IsFin(exp_data[1].gex) /\ IsFin(exp_data[2].gex)
    /\ exp_data[1].gex.v # 0 /\ exp_data[2].gex.v # 0
    /\ exp_data[1].gex.v # exp_data[2].gex.v

\* the row has no 'open_interest' field
NoOIField(row) == "open_interest" \notin DOMAIN row

\* C21: a row whose open interest field is absent is treated as having open
\* interest 0: its exposure is exactly zero, and so are the per-strike and
\* the net exposure of a chain whose rows all lack the field.
C21_AbsentOIIsZero ==
    Computed =>
        /\ \A i \in 1..Len(exp_data) :
              NoOIField(exp_data[i].row) =>
                  IsFin(exp_data[i].gex) /\ exp_data[i].gex.v = 0
        /\ (status = "metrics" /\ \A i \in 1..Len(exp_data) : NoOIField(exp_data[i].row)) =>
              /\ \A k \in 1..Len(gex_by_strike) :
                    IsFin(gex_by_strike[k].gex) /\ gex_by_strike[k].gex.v = 0
              /\ IsFin(total_gex) /\ total_gex.v = 0

\* a call and a put without the field, analysed at the fetched close
C21_Witness ==
    /\ status = "metrics"
    /\ Len(exp_data) = 2
    /\ \A i \in 1..2 : NoOIField(exp_data[i].row)
    /\ exp_data[1].row["option_type"] = "call" /\ exp_data[2].row["option_type"] = "put"
    /\ spot_price = Np(10 * SCALE)

\* the rows of the last iteration that calculate_gex answered from its
\* `except:` clause
SwallowedRows ==
    {i \in 1..Len(exp_data) :
        \/ RowRaises(exp_data[i].row)
        \/ RowGreeks(exp_data[i].row, spot_price, now).exc # "none"}

\* C22: every per-row error swallowed during the aggregation is logged: each
\* failing row contributes zero and leaves a log record, and the error does
\* not reach the caller.
C22_SwallowedErrorsAreLogged ==
    Computed =>
        /\ \A i \in SwallowedRows : IsFin(exp_data[i].gex) /\ exp_data[i].gex.v = 0
        /\ Len(log) >= Cardinality(SwallowedRows)

\* the page shows for the last symbol what the analysis of that symbol's own
\* chain, close, clock reading and selection gives
ShownIsOwn ==
    status = "metrics" =>
        /\ SameResult(chains)
        /\ regime = Regime(spot_price, zero_gamma)

\* the loop has symbols left
SymbolsLeft == analysis_type = "gex" /\ idx < Len(symbols)

\* C23: the GEX computations of different symbols are independent: what is
\* shown for a symbol is the analysis of its own inputs, whichever symbols
\* were processed before it and in whatever order, and an exception in the
\* iteration of one symbol does not keep the next symbol from its iteration.
C23_SymbolsIndependent ==
    /\ ShownIsOwn
    /\ SymbolsLeft => ENABLED GexSymbolOfTwo

\* the second of two symbols shows its metrics, with a net GEX other than 0
C23_Witness ==
    /\ Len(symbols) = 2 /\ idx = 2
    /\ status = "metrics"
    /\ IsFin(total_gex) /\ total_gex.v # 0

\* the first of two symbols ended in st.error and the second is still due
ErrorBeforeLast ==
    /\ Len(symbols) = 2 /\ idx = 1
    /\ status = "error"

\* C24: for every valid input gamma is not negative and delta is within
\* [-1, 1]: within [0, 1] for a call and within [-1, 0] for a put.
C24_GammaAndDeltaRanges ==
    (Clicked /\ ValidInput) =>
        /\ greeks.exc = "none"
        /\ IsFin(greeks.gamma) /\ greeks.gamma.v >= 0
        /\ IsFin(greeks.delta)
        /\ calc.opt_type = "call" => (0 <= greeks.delta.v /\ greeks.delta.v <= SCALE)
        /\ calc.opt_type = "put" => (-SCALE <= greeks.delta.v /\ greeks.delta.v <= 0)

\* a put in the money, a month from expiry: delta strictly between -1 and
\* 0, gamma above zero
C24_Witness ==
    /\ Clicked /\ ValidInput
    /\ calc.opt_type = "put" /\ calc.T_days = 30
    /\ calc.S = Py(9 * SCALE) /\ calc.K = Py(10 * SCALE)
    /\ greeks.exc = "none"
    /\ -SCALE < greeks.delta.v /\ greeks.delta.v < 0
    /\ greeks.gamma.v > 0

\* the gamma the evaluator returns at price S, the calculator's other inputs
\* unchanged
GammaAt(S) ==
    black_scholes_greeks(S, calc.K, CalcT, calc.r, calc.sigma, calc.opt_type).gamma

\* price S lies between the calculator's price and price P, P included
Closer(S, P) ==
    \/ calc.S.v < S.v /\ S.v <= P.v
    \/ P.v <= S.v /\ S.v < calc.S.v

\* gamma at the calculator's price is not above gamma at any price of the
\* grid that is closer to P on the same side
DecreasesAwayFrom(P) ==
    \A S \in GridPrices : Closer(S, P) => greeks.gamma.v <= GammaAt(S).v

\* C25 as documented: with K, T, r and sigma fixed, gamma is maximal at
\* S == K and decreases as S moves away from K in either direction.
C25_GammaPeaksAtStrike ==
    (Clicked /\ ValidInput) => DecreasesAwayFrom(calc.K)

\* the price at which gamma is maximal: K * exp(-(r + 1.5 * sigma**2) * T)
PeakPrice ==
    Mul(calc.K, Exp(Neg(Mul(Add(calc.r, Mul(Py((3 * SCALE) \div 2), Pow2(calc.sigma))),
                            FloorT(CalcT)))))

\* C25: with K, T, r and sigma fixed, gamma is maximal at
\* S == K * exp(-(r + 1.5 * sigma**2) * T), a price below K that is near it
\* while (r + 1.5 * sigma**2) * T is small, and decreases as S moves away
\* from that price in either direction.
C25_GammaPeaksBelowStrike ==
    (Clicked /\ ValidInput) => DecreasesAwayFrom(PeakPrice)

\* a year from expiry at volatility 0.5, two below the strike: gamma is
\* above the gamma at the strike
C25_Witness ==
    /\ Clicked /\ ValidInput
    /\ calc.T_days = 365 /\ calc.sigma = Py(SCALE \div 2)
    /\ calc.S = Py(8 * SCALE) /\ calc.K = Py(10 * SCALE)
    /\ greeks.exc = "none"
    /\ greeks.gamma.v > GammaAt(calc.K).v

\* C26: at the money (S == K), a month or less from expiry and at volatility
\* 0.2 with rate 0.05, the delta of a call is within 0.05 of 0.5.
C26_AtTheMoneyDelta ==
    (/\ Clicked
     /\ calc.S = calc.K /\ Gt(calc.S, Py(0))
     /\ calc.T_days <= 30
     /\ calc.sigma = Py(SCALE \div 5)
     /\ calc.opt_type = "call") =>
        /\ greeks.exc = "none"
        /\ IsFin(greeks.delta)
        /\ AbsI(greeks.delta.v - SCALE \div 2) <= SCALE \div 20

\* an at-the-money call a month from expiry: delta above 0.5
C26_Witness ==
    /\ Clicked
    /\ calc.S = Py(10 * SCALE) /\ calc.K = Py(10 * SCALE)
    /\ calc.T_days = 30 /\ calc.sigma = Py(SCALE \div 5) /\ calc.opt_type = "call"
    /\ greeks.exc = "none"
    /\ greeks.delta.v > SCALE \div 2

\* C27: calculate_gex and black_scholes_greeks classify the option type of a
\* row consistently: the exposure gets the put sign exactly when the
\* evaluator takes its put branch, whatever the row's option_type is.
C27_TypeClassifiedConsistently ==
    Computed =>
        \A i \in 1..Len(exp_data) :
            Evaluated(exp_data[i].row) =>
                (IsPutSign(exp_data[i].row)
                    <=> ~IsCallBranch(Get(exp_data[i].row, "option_type", "call")))

\* C28: a zero-gamma strike is reported only with the metrics of a non-empty
\* selection whose per-strike series has been computed, and it is the strike
\* of one of the selected rows and of one entry of the series.
C28_ZeroGammaIsAChainStrike ==
    /\ zero_gamma # None => status = "metrics"
    /\ status = "metrics" =>
          /\ selected_exps # {}
          /\ exp_data # <<>>
          /\ gex_by_strike # <<>>
          /\ \A k \in 1..Len(gex_by_strike) : gex_by_strike[k].cumsum # None
          /\ IsFin(zero_gamma)
          /\ \E i \in 1..Len(exp_data) :
                /\ IsFin(exp_data[i].row["strike"])
                /\ exp_data[i].row["strike"].v = zero_gamma.v
          /\ \E k \in 1..Len(gex_by_strike) : gex_by_strike[k].strike = zero_gamma

\* a series of two strikes of which the higher one is reported
C28_Witness ==
    /\ status = "metrics"
    /\ Len(gex_by_strike) = 2
    /\ zero_gamma = gex_by_strike[2].strike
    /\ gex_by_strike[1].strike.v < zero_gamma.v

\* the flag of the derivatives page: st.session_state.get('fetch_options', False)
FetchOptions == Get(session_state, "fetch_options", FALSE)

\* C29: every module the navigation selectbox offers has a rendering
\* branch: whatever module is selected, the run enters the branch of that
\* module.
C29_EveryModuleHasABranch ==
    /\ main_module \in Range(Modules)
    /\ branch = main_module

\* the last run rendered the derivatives page
DerivativesRendered == branch = "derivatives" /\ obb

\* the flag is not reset, and only a run of the derivatives page with the
\* package imported sets it
FetchOptionsStep ==
    /\ FetchOptions => FetchOptions'
    /\ (~FetchOptions /\ FetchOptions') => DerivativesRendered'

\* C30: fetch_options is a latch: false when the session starts, set by a
\* click of the button of the derivatives page and never reset, and every
\* later run of the derivatives page fetches the option chain again, while
\* no run fetches it before.
C30_FetchOptionsLatch ==
    /\ ~FetchOptions
    /\ [][FetchOptionsStep]_vars
    /\ [](DerivativesRendered => (FetchOptions <=> deriv.chain # "none"))
    /\ [](~DerivativesRendered => deriv.chain = "none")

\* the flag is set and the last run of the derivatives page, in which the
\* other button was clicked, fetched the chain again
C30_Witness ==
    /\ DerivativesRendered
    /\ FetchOptions
    /\ deriv.surface
    /\ deriv.chain = "table"

====
